---- MODULE Spec2Model ----
(***************************************************************************)
(* Model of apiforward.py, the mail gateway for the Rossum Invoice Robot   *)
(* API: one incoming message is walked, its attachments are POSTed to the  *)
(* remote API, every job is polled until it leaves 'processing', the       *)
(* results are written to a CSV table and the table is mailed back.        *)
(*                                                                         *)
(* Python values are modelled as follows: a str is a TLA+ string, None is  *)
(* the value None below, a dict with optional keys is a record whose       *)
(* DOMAIN holds the keys that are present, a list is a sequence.  The CSV  *)
(* text is modelled as the table csv.DictWriter lays out (header and rows  *)
(* of cells); quoting and line ends are left to the csv library.           *)
(***************************************************************************)
EXTENDS Integers, Sequences, FiniteSets, TLC

VARIABLES
    msg,        \* the parsed incoming message: headers and msg.walk() order
    bcc,        \* sys.argv[3], or None
    scenario,   \* remote API: the final results it serves, by job id
    remote,     \* remote API: state of the job the client is waiting on
    jobs,       \* remote API: jobs[id] is the part whose payload job id holds
    pc,         \* position of the script
    i,          \* msg_to_api: index of the next part of msg.walk()
    docs,       \* msg_to_api: the docs list
    j,          \* msg_to_api: index of the doc the poll loop is at
    posts,      \* posts[k]: POST requests issued for part k
    gets,       \* GET requests issued
    waits,      \* 'processing' answers received (sleeps of poll_document)
    slept,      \* seconds spent in time.sleep
    lastCall,   \* the most recent API request and how it ended
    csv_str,    \* __main__: the CSV table
    msg_out,    \* __main__: the reply message
    outbox      \* messages handed to smtplib, in order

vars == <<msg, bcc, scenario, remote, jobs, pc, i, docs, j, posts, gets,
          waits, slept, lastCall, csv_str, msg_out, outbox>>

----------------------------------------------------------------------------
(* Program constants *)

MAX_ATTACHMENTS == 15

POST_DELAY == 1

POLL_DELAY == 2

DEFAULT_SUBJECT == <<"Re: (RIR Submission)">>

ROBOT_FROM == "Rossum Invoice Robot <support@rossum.ai>"

(* Bounds of the model *)

\* largest number of submittable parts of an incoming message
MaxEligible == 16

\* largest number of 'processing' answers the remote API gives in one run
MaxProcessing == 2

\* longest docs list the CSV formatter is applied to on its own
MaxDocs == 2

----------------------------------------------------------------------------
(* Python values *)

None == "None"

Truthy(v) == v # None /\ v # ""

Get(d, key, default) == IF key \in DOMAIN d THEN d[key] ELSE default

----------------------------------------------------------------------------
(* Incoming messages, as the sequence msg.walk() yields *)

FileNameTable ==
    << "d01.pdf", "d02.pdf", "d03.pdf", "d04.pdf", "d05.pdf", "d06.pdf",
       "d07.pdf", "d08.pdf", "d09.pdf", "d10.pdf", "d11.pdf", "d12.pdf",
       "d13.pdf", "d14.pdf", "d15.pdf", "d16.pdf", "d17.pdf", "d18.pdf",
       "d19.pdf", "d20.pdf" >>

\* the k-th attachment: every fourth one is an inline image without filename
Att(k) ==
    IF k % 4 = 0
    THEN [maintype |-> "image", filename |-> None]
    ELSE [maintype |-> "application", filename |-> FileNameTable[k]]

Body == [maintype |-> "text", filename |-> None]

Multi == [maintype |-> "multipart", filename |-> None]

Fwd == [maintype |-> "message", filename |-> "fwd.eml"]

Atts(n) == [k \in 1..n |-> Att(k)]

\* multipart/mixed: a text body, then n attachments
Layout1(n) == <<Multi, Body>> \o Atts(n)

\* multipart/mixed: n attachments, a text part after each
Layout2(n) ==
    <<Multi>> \o [p \in 1..(2 * n) |-> IF p % 2 = 1 THEN Att((p + 1) \div 2) ELSE Body]

\* a forwarded message carrying the attachments, a second one after them
Layout3(n) == <<Multi, Body, Fwd, Multi, Body>> \o Atts(n) \o <<Fwd, Body>>

PartLists ==
    {<<Body>>, <<Att(1)>>}
        \cup {Layout1(n) : n \in 0..MaxEligible}
        \cup {Layout2(n) : n \in 0..MaxEligible}
        \cup {Layout3(n) : n \in 0..MaxEligible}

HeaderSet ==
    { [from |-> "alice@example.org", reply_to |-> None, subject |-> "Invoices"],
      [from |-> "alice@example.org", reply_to |-> "", subject |-> None],
      [from |-> "alice@example.org", reply_to |-> "billing@example.org",
       subject |-> "Invoices"] }

Message(h, ps) ==
    [from |-> h.from, reply_to |-> h.reply_to, subject |-> h.subject, parts |-> ps]

BccSet == {None, "debug@rossum.ai"}

----------------------------------------------------------------------------
(* The remote API *)

\* code-point order of the field names the remote API uses in the model
NameOrder == <<"amount", "filename", "preview", "status", "total">>

FieldNames == {NameOrder[r] : r \in 1..Len(NameOrder)}

Field(n, c) == [name |-> n, content |-> c]

Failed == [status |-> "error"]

Full ==
    [status |-> "ready", preview |-> "page one",
     fields |-> <<Field("total", "120.00"), Field("amount", "100.00")>>]

Clash == [status |-> "ready", fields |-> <<Field("filename", "scan.tif")>>]

PipeScenarios == {<<Full>>, <<Failed>>, <<Failed, Full>>, <<Full, Clash>>}

\* the final result the remote API serves for job id
ResultFor(id) == scenario[((id - 1) % Len(scenario)) + 1]

\* ways a request can fail: network error, body that is not JSON, key missing
Failures == {"network", "not_json", "missing_key"}

Outcomes == {"ok"} \cup Failures

----------------------------------------------------------------------------
(* results_to_csv *)

Rank(n) == CHOOSE r \in 1..Len(NameOrder) : NameOrder[r] = n

\* the names of doc['r'].get('fields', []) of every doc, as a set
NamesOf(ds) ==
    UNION { { Get(ds[d].r, "fields", <<>>)[p].name :
                p \in 1..Len(Get(ds[d].r, "fields", <<>>)) } : d \in 1..Len(ds) }

\* Python's sorted() on a set of str
RECURSIVE sorted(_)
sorted(S) ==
    IF S = {} THEN <<>>
    ELSE LET m == CHOOSE x \in S : \A y \in S : Rank(x) <= Rank(y)
         IN  <<m>> \o sorted(S \ {m})

Reverse(q) == [c \in 1..Len(q) |-> q[Len(q) + 1 - c]]

\* sorted(..., reverse=True)
fieldnames_Descending(ds) ==
    <<"filename", "status", "preview">> \o Reverse(sorted(NamesOf(ds)))

fieldnames(ds) == <<"filename", "status", "preview">> \o sorted(NamesOf(ds))

\* row[f['name']] = f['content'], field after field
RECURSIVE SetFields(_, _)
SetFields(row, fs) ==
    IF fs = <<>> THEN row
    ELSE SetFields((Head(fs).name :> Head(fs).content) @@ row, Tail(fs))

RowDict(doc) ==
    SetFields( ("filename" :> doc.filename) @@ ("status" :> doc.r.status)
                   @@ ("preview" :> Get(doc.r, "preview", "")),
               Get(doc.r, "fields", <<>>) )

\* the csv module writes None as the empty string
Cell(v) == IF v = None THEN "" ELSE v

\* csv.DictWriter.writerow: rowdict.get(key, '') for every key of fieldnames
writerow(row, names) ==
    [c \in 1..Len(names) |-> IF names[c] \in DOMAIN row THEN Cell(row[names[c]]) ELSE ""]

results_to_csv(ds) ==
    LET names == fieldnames(ds)
    IN  [header |-> names,
         rows   |-> [d \in 1..Len(ds) |-> writerow(RowDict(ds[d]), names)]]

NoCsv == [header |-> <<>>, rows |-> <<>>]

----------------------------------------------------------------------------
(* msg_reply *)

\* the Reply-To header is not looked at
Recipient_FromOnly(msg_in) == msg_in.from

Recipient(msg_in) ==
    IF Truthy(msg_in.reply_to) THEN msg_in.reply_to ELSE msg_in.from

msg_reply(msg_in, csv) ==
    [From       |-> ROBOT_FROM,
     To         |-> Recipient(msg_in),
     Subject    |-> IF msg_in.subject # None THEN <<"Re: ", msg_in.subject>>
                    ELSE DEFAULT_SUBJECT,
     attachment |-> csv]

NoMsg == [From |-> "", To |-> "", Subject |-> <<>>, attachment |-> NoCsv]

----------------------------------------------------------------------------
(* msg_to_api *)

\* message/* parts are not taken for containers
IsContainer_MultipartOnly(part) == part.maintype \in {"multipart"}

IsContainer(part) == part.maintype \in {"multipart", "message"}

IsBody(part) == part.maintype = "text"

\* the limit test is off by one
LimitReached_OffByOne(ds) == Len(ds) > MAX_ATTACHMENTS

LimitReached(ds) == Len(ds) >= MAX_ATTACHMENTS

\* the docs are polled last first
PollTarget_Reversed(ds, k) == ds[Len(ds) + 1 - k]

\* the for loop over docs: the doc polled at position j
PollTarget(ds, k) == ds[k]

\* the loop waits on another status than the one the API reports
StillProcessing_WrongStatus(res) == res.status = "pending"

\* poll_document: the test that sends the loop round again
StillProcessing(res) == res.status = "processing"

\* the exception is swallowed and the call is made again
Uncaught_Swallowed(at) == at

\* an exception nobody catches ends the script
Uncaught(at) == "crashed"

\* state of the next awaited job as the client first sees it
Awaited(ds, k) == IF k <= Len(ds) THEN {"processing", "finished"} ELSE {"idle"}

NoCall == [kind |-> "none", arg |-> 0, outcome |-> "ok"]

Init ==
    /\ \E h \in HeaderSet, ps \in PartLists : msg = Message(h, ps)
    /\ bcc \in BccSet
    /\ scenario \in PipeScenarios
    /\ remote = "idle"
    /\ jobs = <<>>
    /\ pc = "walk"
    /\ i = 1
    /\ docs = <<>>
    /\ j = 1
    /\ posts = [k \in 1..Len(msg.parts) |-> 0]
    /\ gets = 0
    /\ waits = 0
    /\ slept = 0
    /\ lastCall = NoCall
    /\ csv_str = NoCsv
    /\ msg_out = NoMsg
    /\ outbox = <<>>

\* line 61: the limit is reached while parts remain
WalkBreak ==
    /\ pc = "walk" /\ i <= Len(msg.parts)
    /\ LimitReached(docs)
    /\ pc' = "poll" /\ j' = 1
    /\ remote' \in Awaited(docs, 1)
    /\ UNCHANGED <<msg, bcc, scenario, jobs, i, docs, posts, gets, waits, slept,
                   lastCall, csv_str, msg_out, outbox>>

\* lines 65-69: containers and text bodies are passed over
WalkSkip ==
    /\ pc = "walk" /\ i <= Len(msg.parts)
    /\ ~LimitReached(docs)
    /\ IsContainer(msg.parts[i]) \/ IsBody(msg.parts[i])
    /\ i' = i + 1
    /\ UNCHANGED <<msg, bcc, scenario, remote, jobs, pc, docs, j, posts, gets,
                   waits, slept, lastCall, csv_str, msg_out, outbox>>

\* lines 72-76: sleep, POST the payload, keep the job id and the filename
WalkSubmit ==
    /\ pc = "walk" /\ i <= Len(msg.parts)
    /\ ~LimitReached(docs)
    /\ ~(IsContainer(msg.parts[i]) \/ IsBody(msg.parts[i]))
    /\ slept' = slept + POST_DELAY
    /\ posts' = [posts EXCEPT ![i] = @ + 1]
    /\ \E out \in Outcomes :
         /\ lastCall' = [kind |-> "POST", arg |-> i, outcome |-> out]
         /\ IF out = "ok"
            THEN /\ jobs' = Append(jobs, i)
                 /\ docs' = Append(docs, [id |-> Len(jobs) + 1,
                                          filename |-> msg.parts[i].filename])
                 /\ i' = i + 1
                 /\ pc' = pc
            ELSE /\ pc' = Uncaught(pc)
                 /\ UNCHANGED <<jobs, docs, i>>
    /\ UNCHANGED <<msg, bcc, scenario, remote, j, gets, waits, csv_str, msg_out,
                   outbox>>

\* the walk is exhausted
WalkEnd ==
    /\ pc = "walk" /\ i > Len(msg.parts)
    /\ pc' = "poll" /\ j' = 1
    /\ remote' \in Awaited(docs, 1)
    /\ UNCHANGED <<msg, bcc, scenario, jobs, i, docs, posts, gets, waits, slept,
                   lastCall, csv_str, msg_out, outbox>>

\* line 79 with poll_document, lines 47-55: one GET, then sleep or return
PollGet ==
    /\ pc = "poll" /\ j <= Len(docs)
    /\ gets' = gets + 1
    /\ \E out \in Outcomes :
         /\ lastCall' = [kind |-> "GET", arg |-> PollTarget(docs, j).id, outcome |-> out]
         /\ IF out # "ok"
            THEN /\ pc' = Uncaught(pc)
                 /\ UNCHANGED <<remote, docs, j, waits, slept>>
            ELSE LET res == IF remote = "processing" THEN [status |-> "processing"]
                            ELSE ResultFor(PollTarget(docs, j).id)
                 IN  IF StillProcessing(res)
                     THEN /\ waits < MaxProcessing
                          /\ waits' = waits + 1
                          /\ slept' = slept + POLL_DELAY
                          /\ UNCHANGED <<remote, docs, j, pc>>
                     ELSE /\ docs' = [docs EXCEPT ![j] =
                                        [id |-> @.id, filename |-> @.filename, r |-> res]]
                          /\ j' = j + 1
                          /\ remote' \in Awaited(docs, j + 1)
                          /\ UNCHANGED <<waits, slept, pc>>
    /\ UNCHANGED <<msg, bcc, scenario, jobs, i, posts, csv_str, msg_out, outbox>>

\* the remote API finishes the job the client is waiting on
RemoteFinish ==
    /\ pc = "poll" /\ remote = "processing"
    /\ remote' = "finished"
    /\ UNCHANGED <<msg, bcc, scenario, jobs, pc, i, docs, j, posts, gets, waits,
                   slept, lastCall, csv_str, msg_out, outbox>>

\* line 81: every doc is polled, msg_to_api returns
PollEnd ==
    /\ pc = "poll" /\ j > Len(docs)
    /\ pc' = "format"
    /\ UNCHANGED <<msg, bcc, scenario, remote, jobs, i, docs, j, posts, gets,
                   waits, slept, lastCall, csv_str, msg_out, outbox>>

----------------------------------------------------------------------------
(* __main__ *)

Format ==
    /\ pc = "format"
    /\ csv_str' = results_to_csv(docs)
    /\ pc' = "reply"
    /\ UNCHANGED <<msg, bcc, scenario, remote, jobs, i, docs, j, posts, gets,
                   waits, slept, lastCall, msg_out, outbox>>

Reply ==
    /\ pc = "reply"
    /\ msg_out' = msg_reply(msg, csv_str)
    /\ pc' = "send"
    /\ UNCHANGED <<msg, bcc, scenario, remote, jobs, i, docs, j, posts, gets,
                   waits, slept, lastCall, csv_str, outbox>>

Mail(to) == [from_addr |-> msg_out.From, to_addrs |-> to, data |-> msg_out]

SendTo ==
    /\ pc = "send"
    /\ outbox' = Append(outbox, Mail(msg_out.To))
    /\ pc' = IF bcc # None THEN "send_bcc" ELSE "done"
    /\ UNCHANGED <<msg, bcc, scenario, remote, jobs, i, docs, j, posts, gets,
                   waits, slept, lastCall, csv_str, msg_out>>

SendBcc ==
    /\ pc = "send_bcc"
    /\ outbox' = Append(outbox, Mail(bcc))
    /\ pc' = "done"
    /\ UNCHANGED <<msg, bcc, scenario, remote, jobs, i, docs, j, posts, gets,
                   waits, slept, lastCall, csv_str, msg_out>>

Next ==
    \/ WalkBreak \/ WalkSkip \/ WalkSubmit \/ WalkEnd
    \/ PollGet \/ RemoteFinish \/ PollEnd
    \/ Format \/ Reply \/ SendTo \/ SendBcc

Spec == Init /\ [][Next]_vars

\* The polling loop under fair scheduling: every sleep and every request
\* returns, so a poll round that can be taken is taken.  Headers and results
\* play no part in the loop and are fixed.
FairInit == Init /\ msg.reply_to = None /\ scenario = <<Failed, Full>>

FairSpec == FairInit /\ [][Next]_vars /\ WF_vars(PollGet)

----------------------------------------------------------------------------
(* results_to_csv on its own: the states msg_to_api can return in, for     *)
(* every short docs list over the results below                            *)

NameLists ==
    {<<>>} \cup {<<a>> : a \in FieldNames} \cup {<<a, b>> : a, b \in FieldNames}

\* the content of the p-th field of the d-th document
ContentTable ==
    << <<"a1", "a2">>, <<"b1", "b2">>, <<"c1", "c2">>, <<"d1", "d2">> >>

ResultShapes ==
    { s \in [hasFields : BOOLEAN, names : NameLists, hasPreview : BOOLEAN] :
        ~s.hasFields => s.names = <<>> }

ResultOfShape(d, s) ==
    LET fs == [p \in 1..Len(s.names) |-> Field(s.names[p], ContentTable[d][p])]
    IN  IF s.hasFields /\ s.hasPreview
        THEN [status |-> "ready", preview |-> "page one", fields |-> fs]
        ELSE IF s.hasFields THEN [status |-> "error", fields |-> fs]
        ELSE IF s.hasPreview THEN [status |-> "ready", preview |-> "page one"]
        ELSE [status |-> "error"]

CsvInit ==
    /\ \E n \in 0..MaxDocs :
         \E shapes \in [1..n -> ResultShapes] :
            /\ msg = Message([from |-> "alice@example.org", reply_to |-> None,
                              subject |-> "Invoices"], Layout1(n))
            /\ scenario = IF n = 0 THEN <<Failed>>
                          ELSE [d \in 1..n |-> ResultOfShape(d, shapes[d])]
            /\ docs = [d \in 1..n |-> [id |-> d, filename |-> Att(d).filename,
                                       r |-> ResultOfShape(d, shapes[d])]]
            /\ jobs = [d \in 1..n |-> d + 2]
            /\ i = n + 3
            /\ j = n + 1
            /\ posts = [k \in 1..(n + 2) |-> IF k > 2 THEN 1 ELSE 0]
            /\ gets = n
            /\ slept = n * POST_DELAY
            /\ lastCall = IF n = 0 THEN NoCall
                          ELSE [kind |-> "GET", arg |-> n, outcome |-> "ok"]
    /\ bcc = None
    /\ remote = "idle"
    /\ pc = "format"
    /\ waits = 0
    /\ csv_str = NoCsv
    /\ msg_out = NoMsg
    /\ outbox = <<>>

CsvNext == Format \/ Reply

CsvSpec == CsvInit /\ [][CsvNext]_vars

----------------------------------------------------------------------------
(* Vocabulary of the properties *)

Parts == 1..Len(msg.parts)

\* parts that are neither text nor multipart
NonTextNonMultipart == {k \in Parts : msg.parts[k].maintype \notin {"text", "multipart"}}

\* parts whose main type is none of text, multipart, message
Submittable ==
    {k \in Parts : msg.parts[k].maintype \notin {"text", "multipart", "message"}}

\* the first n members of a set of part indices, in walk order
FirstN(S, n) == {k \in S : Cardinality({m \in S : m < k}) < n}

\* the parts whose payload reached the remote API as a job
Submitted == {jobs[d] : d \in 1..Len(jobs)}

Polled(d) == "r" \in DOMAIN docs[d]

WalkOver == pc \notin {"walk", "crashed"}

CsvBuilt == pc \in {"reply", "send", "send_bcc", "done"}

Rows == csv_str.rows

Header == csv_str.header

\* the field names of the polled results, read off the results themselves
SeenNames ==
    {n \in FieldNames :
        \E d \in 1..Len(docs) :
            /\ "fields" \in DOMAIN docs[d].r
            /\ \E p \in 1..Len(docs[d].r.fields) : docs[d].r.fields[p].name = n}

\* the contents of the fields of document d that are named n
ContentsOf(d, n) ==
    IF "fields" \in DOMAIN docs[d].r
    THEN {docs[d].r.fields[p].content :
            p \in {q \in 1..Len(docs[d].r.fields) : docs[d].r.fields[q].name = n}}
    ELSE {}

----------------------------------------------------------------------------
(* C1: in a run whose API calls all succeed, on a message with at most     *)
(* MAX_ATTACHMENTS parts that are neither text nor multipart, every such   *)
(* part is POSTed once and has a CSV row whose filename cell carries its   *)
(* filename.                                                               *)
C1_EverySuchPartSubmittedAndListed ==
    (pc = "done" /\ Cardinality(NonTextNonMultipart) <= MAX_ATTACHMENTS) =>
        \A k \in NonTextNonMultipart :
            /\ posts[k] = 1
            /\ \E d \in 1..Len(Rows) :
                 /\ d <= Len(jobs) /\ jobs[d] = k
                 /\ Rows[d][1] = Cell(msg.parts[k].filename)

(* C2: the docs list never grows past MAX_ATTACHMENTS; on a message with   *)
(* more submittable parts than that, only the first MAX_ATTACHMENTS of     *)
(* them are ever POSTed or polled, the walk ends without an error of its   *)
(* own, and the run that ends has built the CSV of those documents and     *)
(* sent it.                                                                *)
C2_TruncatedWithoutError ==
    /\ Len(docs) <= MAX_ATTACHMENTS
    /\ Len(jobs) <= MAX_ATTACHMENTS
    /\ Cardinality(Submittable) > MAX_ATTACHMENTS =>
         /\ Submitted \subseteq FirstN(Submittable, MAX_ATTACHMENTS)
         /\ \A k \in Parts \ FirstN(Submittable, MAX_ATTACHMENTS) : posts[k] = 0
         /\ lastCall.kind = "GET" =>
                jobs[lastCall.arg] \in FirstN(Submittable, MAX_ATTACHMENTS)
         /\ pc = "crashed" => lastCall.outcome \in Failures
         /\ pc = "walk" => ENABLED (WalkBreak \/ WalkSkip \/ WalkSubmit \/ WalkEnd)
         /\ WalkOver =>
                /\ Submitted = FirstN(Submittable, MAX_ATTACHMENTS)
                /\ Len(docs) = MAX_ATTACHMENTS
         /\ pc = "done" =>
                /\ Len(Rows) = MAX_ATTACHMENTS
                /\ Len(outbox) >= 1
                /\ outbox[1].data.attachment = csv_str

C2_Witness ==
    /\ pc = "done"
    /\ Cardinality(Submittable) > MAX_ATTACHMENTS
    /\ Len(Rows) = MAX_ATTACHMENTS

(* C10: a part whose main type is text, multipart or message is never      *)
(* POSTed and takes no place in the docs list; the submitted parts are, at *)
(* every moment of the walk, the submittable parts passed so far, cut at   *)
(* MAX_ATTACHMENTS, and after the walk exactly the first (up to            *)
(* MAX_ATTACHMENTS) submittable parts; the CSV has one row per submitted   *)
(* part and no other row.                                                  *)
C10_OnlySubmittableParts ==
    /\ \A k \in Parts \ Submittable : posts[k] = 0 /\ k \notin Submitted
    /\ \A d, e \in 1..Len(jobs) : d < e => jobs[d] < jobs[e]
    /\ Submitted \subseteq FirstN(Submittable, MAX_ATTACHMENTS)
    /\ pc = "walk" =>
         Submitted = {k \in FirstN(Submittable, MAX_ATTACHMENTS) : k < i}
    /\ WalkOver => Submitted = FirstN(Submittable, MAX_ATTACHMENTS)
    /\ Len(docs) = Cardinality(Submitted)
    /\ CsvBuilt => Len(Rows) = Cardinality(Submitted)

C10_Witness ==
    /\ pc = "done"
    /\ \E k \in Parts : msg.parts[k].maintype = "message"
    /\ \E k \in Parts : msg.parts[k].maintype = "text" /\ k > 1 /\ k < Len(msg.parts)
    /\ Cardinality(Submittable) > MAX_ATTACHMENTS
    /\ Len(Rows) = MAX_ATTACHMENTS

----------------------------------------------------------------------------
(* C3: the CSV header is filename, status, preview and then the field      *)
(* names seen in the polled results, each once, in sorted order; for the   *)
(* empty docs list it is filename, status, preview alone.                  *)
C3_HeaderSortedDistinct ==
    CsvBuilt =>
        /\ Len(Header) = 3 + Cardinality(SeenNames)
        /\ Header[1] = "filename" /\ Header[2] = "status" /\ Header[3] = "preview"
        /\ {Header[c] : c \in 4..Len(Header)} = SeenNames
        /\ \A c, e \in 4..Len(Header) : c < e => Rank(Header[c]) < Rank(Header[e])

\* two documents name the same field, and a later name sorts first
C3_Witness ==
    /\ CsvBuilt
    /\ Len(docs) = 2
    /\ Get(docs[1].r, "fields", <<>>) = <<Field("total", "a1"), Field("amount", "a2")>>
    /\ Get(docs[2].r, "fields", <<>>) = <<Field("status", "b1"), Field("amount", "b2")>>
    /\ Header = <<"filename", "status", "preview", "amount", "status", "total">>

(* C4: in every row, the cell of a field-name column is blank when the     *)
(* document has no field of that name (or no 'fields' key) and otherwise   *)
(* holds the content of the document's field of that name; the preview     *)
(* cell is blank when the result has no preview.                           *)
C4_MissingFieldsBlank ==
    CsvBuilt =>
        \A d \in 1..Len(Rows) :
            /\ "preview" \notin DOMAIN docs[d].r => Rows[d][3] = ""
            /\ \A c \in 4..Len(Header) :
                 IF ContentsOf(d, Header[c]) = {}
                 THEN Rows[d][c] = ""
                 ELSE Rows[d][c] \in ContentsOf(d, Header[c])

(* C9: in every row the filename, status and preview cells hold the        *)
(* document's attachment filename, polled status and preview, whatever the *)
(* field names of the results are, and no column name occurs twice in the  *)
(* header.                                                                 *)
C9_OwnColumnsKept ==
    CsvBuilt =>
        /\ \A d \in 1..Len(Rows) :
             /\ Rows[d][1] = Cell(docs[d].filename)
             /\ Rows[d][2] = docs[d].r.status
             /\ Rows[d][3] = Get(docs[d].r, "preview", "")
        /\ \A c, e \in 1..Len(Header) : c # e => Header[c] # Header[e]

----------------------------------------------------------------------------
(* C5: poll_document issues one GET per round; an answer of 'processing'   *)
(* is followed by a sleep of POLL_DELAY and another round for the same     *)
(* job, any other answer is returned at once as the document's result, so  *)
(* that no result kept has status 'processing'; the loop is left only on   *)
(* an answer of a finished job, and once the remote job has finished the   *)
(* loop does end.                                                          *)
C5_Round ==
    /\ gets' # gets => gets' = gets + 1 /\ pc = "poll" /\ lastCall'.kind = "GET"
    /\ (gets' = gets + 1 /\ lastCall'.outcome = "ok") =>
         IF remote = "processing"
         THEN /\ j' = j /\ docs' = docs /\ pc' = "poll"
              /\ slept' = slept + POLL_DELAY
         ELSE /\ j' = j + 1
              /\ "r" \in DOMAIN docs'[j]
              /\ docs'[j].r = ResultFor(docs[j].id)
              /\ slept' = slept
    /\ (pc = "poll" /\ j' # j) => gets' = gets + 1 /\ remote = "finished"
    /\ (pc = "poll" /\ slept' # slept) => gets' = gets + 1 /\ remote = "processing"

C5_PollUntilDone ==
    /\ [](\A d \in 1..Len(docs) : Polled(d) => docs[d].r.status # "processing")
    /\ [][C5_Round]_vars
    /\ \A k \in 1..MAX_ATTACHMENTS :
         (pc = "poll" /\ j = k /\ k <= Len(docs) /\ remote = "finished")
             ~> (j > k \/ pc = "crashed")

\* a job answered 'processing' once and polled to its result afterwards
C5_Witness ==
    /\ waits >= 1
    /\ Len(docs) >= 2
    /\ Polled(2)
    /\ docs[2].r.status = "ready"
    /\ gets = 3

(* C6: no part is POSTed twice; a POST or GET that fails (network error,   *)
(* body that is not JSON, key missing) ends the script there: nothing more *)
(* is submitted or polled, and no mail is sent.                            *)
C6_FailureEndsRun ==
    /\ \A k \in Parts : posts[k] <= 1
    /\ lastCall.outcome \in Failures => pc = "crashed"
    /\ pc = "crashed" =>
         /\ lastCall.outcome \in Failures
         /\ outbox = <<>>
         /\ ~ENABLED Next

\* a GET fails after other documents were submitted and one was polled
C6_Witness ==
    /\ pc = "crashed"
    /\ lastCall.kind = "GET"
    /\ Len(docs) >= 3
    /\ Polled(1)
    /\ bcc # None

(* C7: the stages run in the order submit, poll, format, reply.  POSTs are *)
(* issued in walk order and before any GET; when the first GET is issued   *)
(* every part msg_to_api submits has been POSTed; each GET is for the      *)
(* first document not yet polled; the CSV rows follow the docs list; no    *)
(* mail is sent before every document has a result that is not             *)
(* 'processing'.                                                           *)
StageRank(p) ==
    CASE p = "walk" -> 1 [] p = "poll" -> 2 [] p = "format" -> 3 [] p = "reply" -> 4
      [] p = "send" -> 5 [] p = "send_bcc" -> 6 [] p = "done" -> 7 [] OTHER -> 8

FirstUnpolled == CHOOSE d \in 1..Len(docs) : ~Polled(d) /\ \A e \in 1..(d - 1) : Polled(e)

C7_Order ==
    /\ \A d, e \in 1..Len(jobs) : d < e => jobs[d] < jobs[e]
    /\ Len(docs) = Len(jobs)
    /\ \A d \in 1..Len(docs) :
         docs[d].id = d /\ docs[d].filename = msg.parts[jobs[d]].filename
    /\ gets > 0 =>
         /\ Submitted = FirstN(Submittable, MAX_ATTACHMENTS)
         /\ \A k \in Submitted : posts[k] = 1
    /\ \A d, e \in 1..Len(docs) : (d < e /\ Polled(e)) => Polled(d)
    /\ CsvBuilt =>
         /\ Len(Rows) = Len(docs)
         /\ \A d \in 1..Len(docs) : Rows[d] = writerow(RowDict(docs[d]), Header)
    /\ (CsvBuilt \/ outbox # <<>>) =>
         \A d \in 1..Len(docs) : Polled(d) /\ docs[d].r.status # "processing"

C7_Step ==
    /\ StageRank(pc') >= StageRank(pc)
    /\ posts' # posts => pc = "walk" /\ gets = 0 /\ gets' = 0
    /\ gets' # gets =>
         /\ pc = "poll"
         /\ \E d \in 1..Len(docs) : ~Polled(d)
         /\ lastCall'.kind = "GET"
         /\ lastCall'.arg = docs[FirstUnpolled].id
         /\ \A d \in 1..Len(docs) : d # FirstUnpolled => docs'[d] = docs[d]
    /\ outbox' # outbox => pc \in {"send", "send_bcc"}

ExpectedTo == IF msg.reply_to \notin {None, ""} THEN msg.reply_to ELSE msg.from

C8_OneReply ==
    /\ pc \in {"walk", "poll", "format", "reply", "send", "crashed"} => outbox = <<>>
    /\ pc \in {"walk", "poll"} =>
         ENABLED (WalkBreak \/ WalkSkip \/ WalkSubmit \/ WalkEnd
                    \/ PollGet \/ RemoteFinish \/ PollEnd)
    /\ pc \in {"reply", "send", "send_bcc"} => ENABLED (Reply \/ SendTo \/ SendBcc)
    /\ pc = "send_bcc" => Len(outbox) = 1 /\ bcc # None
    /\ outbox # <<>> =>
         /\ outbox[1].to_addrs = ExpectedTo
         /\ outbox[1].from_addr = ROBOT_FROM
         /\ outbox[1].data.attachment = csv_str
    /\ pc = "done" =>
         /\ Len(outbox) = IF bcc = None THEN 1 ELSE 2
         /\ Cardinality({m \in 1..Len(outbox) : outbox[m].to_addrs = ExpectedTo}) = 1
         /\ bcc # None => outbox[2].to_addrs = bcc /\ outbox[2].data = outbox[1].data
         /\ Len(docs) = 0 =>
              outbox[1].data.attachment =
                  [header |-> <<"filename", "status", "preview">>, rows |-> <<>>]

\* no document, an empty Reply-To header, a BCC address
C8_Witness ==
    /\ pc = "done"
    /\ Len(docs) = 0
    /\ msg.reply_to = ""
    /\ bcc # None
    /\ Len(outbox) = 2

====
